---- MODULE Spec2Model ----
(***************************************************************************)
(* Order / payment / stock consistency of the order-fulfillment backend.   *)
(*                                                                         *)
(* The shared durable store (variant stock counters, Order rows, Payment   *)
(* rows) is the state; every service method is an action.  A method whose  *)
(* body awaits several store round trips and which the claims examine      *)
(* under concurrency (reserveStockForOrder, handlePayPalCallback,          *)
(* handleAbandonedOrders) is a process that takes one step per round trip. *)
(*                                                                         *)
(*   SpecReserve  concurrent OrdersService.reserveStockForOrder calls      *)
(*   Spec         the checkout flow: OrdersService (orders.service.ts)     *)
(*                with PaymentsService (payments.service.ts) and           *)
(*                ProductsService                                          *)
(*   SpecAdmin    the administration of orders: status setters, cancels    *)
(*   SpecPayments PaymentsService create, retryPayment, cancelPayment      *)
(*   SpecLedger   reserveStockForOrder, confirmStockReduction and          *)
(*                releaseReservedStock called in any order                 *)
(*   SpecCancel   cancelOrder, cancelOrderForUser, cancelOrderForAdmin on   *)
(*                orders whose items may be reserved                       *)
(*   SpecNumbers  concurrent OrdersService.createOrder calls with           *)
(*                generateOrderNumber, and OrdersService.remove            *)
(*   SpecItems    OrderItemsService update and remove on persisted orders   *)
(*   SpecRestock  OrdersService.createOrder and updateOrderStatus, which    *)
(*                gives stock back on CANCELLED                            *)
(*   SpecRestore  cancellations repeated on an order that the admin put    *)
(*                back to an open status                                   *)
(*   SpecPaidCancel  cancelOrderForUser on orders paid through the callback *)
(*   SpecPaymentSweep  handleAbandonedPayments beside payments and callbacks *)
(*   SpecPayAgain  PaymentsService.create on orders paid through the callback *)
(*   SpecPayPalOrder  createOrderWithPayPal and the gateway's answers         *)
(*   SpecConvert  PayPalService.convertCurrencyForPayPal on a range of     *)
(*                amounts and currencies                                   *)
(*   SpecCreate   order creation by OrdersService.create and by             *)
(*                OrdersService.createOrder, with the payment request      *)
(*   SpecSweep    handleAbandonedOrders run again and again beside the     *)
(*                checkout flow (weak fairness on its steps and the clock) *)
(***************************************************************************)
EXTENDS Integers, Sequences, FiniteSets, TLC

\* ------------------------------------------------------------------ bounds
NumReservers == 2
MaxItems == 2
MaxOrders == 2
MaxTime == 1
MaxStock == 5
MaxVndSteps == 45
MaxCaptureCalls == 2
MaxPayments == 1
NumCaptures == 1
MaxOrderPayments == 2
NumCreators == 2

\* ------------------------------------------------------------- the catalog
Variants == {"X", "Y"}
InitStock == [v \in Variants |-> IF v = "X" THEN 3 ELSE 1]

\* CreateOrderItemDto: quantity is an integer >= 1 (IsInt, Min(1)).
ItemChoices ==
  { [variantId |-> "X", quantity |-> 2],
    [variantId |-> "Y", quantity |-> 1] }

SeqsUpTo(S, n) == UNION { [1..k -> S] : k \in 1..n }

ItemLists == SeqsUpTo(ItemChoices, MaxItems)

\* The carts orders are placed with: a single line, and two lines.
OrderItemLists ==
  {<<[variantId |-> "X", quantity |-> 2]>>,
   <<[variantId |-> "Y", quantity |-> 1], [variantId |-> "X", quantity |-> 2]>>}

Zero == [v \in Variants |-> 0]

RECURSIVE Need(_)
\* The total quantity per variant on a list of line items.
Need(items) ==
  IF items = <<>> THEN Zero
  ELSE LET it == Head(items)
           rest == Need(Tail(items))
       IN [rest EXCEPT ![it.variantId] = @ + it.quantity]

Max(a, b) == IF a >= b THEN a ELSE b

VARIABLES
  stockQuantity,     \* ProductVariant.stock_quantity per variant
  reservedQuantity,  \* ProductVariant.reserved_quantity per variant
  rsv,               \* the reserveStockForOrder calls in flight
  succeededQty,      \* per variant, the quantity of the calls that returned normally
  orders,            \* the Order rows, by id
  payments,          \* the Payment rows of each order, in insertion order
  gwOrders,          \* the gateway orders PayPalService.createOrder has opened
  captureCalls,      \* how often PayPalService.captureOrder was invoked
  cap,               \* the handlePayPalCallback calls in flight
  sweep,             \* the handleAbandonedOrders run in flight
  now,               \* the clock (new Date())
  committed,         \* per order: stock was committed for it (the capture's
                     \* decrement, or confirmStockReduction)
  restored,          \* per order: stock was given back for it
                     \* (restoreProductStock, or releaseReservedStock)
  raced,             \* per order: a sweep run and a capture were in flight together
  usedCount,         \* the usage counter of the voucher
  shippings,         \* the orders that have a Shipping row
  crt,               \* the outcome of the latest order-creation request
  gen,               \* the createOrder calls in flight, between the count of
                     \* generateOrderNumber and the writes
  stockBefore,       \* per order: the variants' stock that the createOrder call
                     \* which wrote it found
  conv,              \* the convertCurrencyForPayPal call of the gateway order being
                     \* opened, and the call before it
  psweep             \* the handleAbandonedPayments run in flight

ledgerVars == <<stockQuantity, reservedQuantity>>
reserveVars == <<rsv, succeededQty>>
createVars == <<usedCount, shippings, crt, gen, stockBefore, conv, psweep>>
orderVars == <<orders, payments, gwOrders, captureCalls, cap, sweep, now,
               committed, restored, raced, createVars>>

\* ---------------------------------------------------------------------------
\* OrdersService.reserveStockForOrder / rollbackStockReservation
\* ---------------------------------------------------------------------------
RProcs == 1..NumReservers

IdleReserver ==
  [pc |-> "idle", items |-> <<>>, i |-> 0, rb |-> <<>>, j |-> 0,
   dStock |-> Zero, dReserved |-> Zero]

\* WHERE id = :variantId AND stock_quantity >= :quantity
ReserveAffectedNoCheck(stock, item) == TRUE
ReserveAffected(stock, item) == stock[item.variantId] >= item.quantity

\* items.slice(0, items.indexOf(item)) for the item at (1-based) position i
RollbackItemsInclusive(items, i) == SubSeq(items, 1, i)
RollbackItems(items, i) == SubSeq(items, 1, i - 1)

\* GREATEST(COALESCE(reserved_quantity, 0) - q, 0)
ReservedMinus(r, q) == Max(r - q, 0)

ReserveStart(p, items) ==
  /\ rsv[p].pc = "idle"
  /\ rsv' = [rsv EXCEPT ![p] = [IdleReserver EXCEPT !.pc = "reserving",
                                                    !.items = items, !.i = 1]]
  /\ UNCHANGED <<ledgerVars, succeededQty, orderVars>>

\* One iteration of the for loop: the conditional UPDATE of one variant row.
\* dbError is a failure of the statement itself (it throws, nothing applied).
ReserveItem(p, dbError) ==
  /\ rsv[p].pc = "reserving"
  /\ LET r == rsv[p]
         item == r.items[r.i]
         v == item.variantId
         q == item.quantity
     IN IF ~dbError /\ ReserveAffected(stockQuantity, item)
        THEN /\ stockQuantity' = [stockQuantity EXCEPT ![v] = @ - q]
             /\ reservedQuantity' = [reservedQuantity EXCEPT ![v] = @ + q]
             /\ LET r2 == [r EXCEPT !.dStock[v] = @ - q, !.dReserved[v] = @ + q]
                IN IF r.i = Len(r.items)
                   THEN /\ rsv' = [rsv EXCEPT ![p] = [r2 EXCEPT !.pc = "ok"]]
                        /\ succeededQty' =
                             [w \in Variants |-> succeededQty[w] + Need(r.items)[w]]
                   ELSE /\ rsv' = [rsv EXCEPT ![p] = [r2 EXCEPT !.i = r.i + 1]]
                        /\ UNCHANGED succeededQty
             /\ UNCHANGED orderVars
        ELSE \* affected = 0 (BadRequestException) or the statement threw:
             \* the catch block rolls back the items before this one
             /\ rsv' = [rsv EXCEPT ![p] = [r EXCEPT !.pc = "rolling",
                                                    !.rb = RollbackItems(r.items, r.i),
                                                    !.j = 1]]
             /\ UNCHANGED <<ledgerVars, succeededQty, orderVars>>

\* One iteration of rollbackStockReservation's loop.
RollbackItem(p) ==
  /\ rsv[p].pc = "rolling"
  /\ rsv[p].j <= Len(rsv[p].rb)
  /\ LET r == rsv[p]
         item == r.rb[r.j]
         v == item.variantId
         q == item.quantity
         newRes == ReservedMinus(reservedQuantity[v], q)
     IN /\ stockQuantity' = [stockQuantity EXCEPT ![v] = @ + q]
        /\ reservedQuantity' = [reservedQuantity EXCEPT ![v] = newRes]
        /\ rsv' = [rsv EXCEPT ![p] =
                     [r EXCEPT !.j = r.j + 1,
                               !.dStock[v] = @ + q,
                               !.dReserved[v] = @ + (newRes - reservedQuantity[v])]]
        /\ UNCHANGED <<succeededQty, orderVars>>

\* The rollback loop is over: the error is rethrown to the caller.
RollbackDone(p) ==
  /\ rsv[p].pc = "rolling"
  /\ rsv[p].j > Len(rsv[p].rb)
  /\ rsv' = [rsv EXCEPT ![p].pc = "failed"]
  /\ UNCHANGED <<ledgerVars, succeededQty, orderVars>>

\* The caller has the result; the request-handling unit is free again.
ReserveReturn(p) ==
  /\ rsv[p].pc \in {"ok", "failed"}
  /\ rsv' = [rsv EXCEPT ![p] = IdleReserver]
  /\ UNCHANGED <<ledgerVars, succeededQty, orderVars>>

InitLedger ==
  /\ stockQuantity = InitStock
  /\ reservedQuantity = Zero

\* ---------------------------------------------------------------------------
\* The store: Order and Payment rows
\* ---------------------------------------------------------------------------
Orders == 1..MaxOrders
CapProcs == 1..NumCaptures

\* A nullable timestamp column: <<>> is NULL, <<t>> is the time t.
Null == <<>>
At(t) == <<t>>

\* Free text (Order.note, Payment.note) is kept as the kind of text last written.
\* CreateOrderDto: subTotal, shippingFee, discount, totalPrice, each a number >= 0.
NoAmounts == [subTotal |-> 0, shippingFee |-> 0, discount |-> 0, totalPrice |-> 0]

NoOrder ==
  [status |-> "NONE", isPaid |-> FALSE, paidAt |-> Null, note |-> "none",
   canceledAt |-> Null, completedAt |-> Null, createdAt |-> 0, items |-> <<>>,
   voucher |-> FALSE, amounts |-> NoAmounts, orderNumber |-> Null]

OrderStatus == {"PENDING", "PROCESSING", "COMPLETED", "CANCELLED"}
PaymentMethods == {"PAYPAL", "COD"}
Reasons == {"absent", "reason"}
\* handleAbandonedOrders(thresholdMinutes)
Thresholds == {0}

Exists(o) == orders[o].status # "NONE"
FreeIds == {o \in Orders : ~Exists(o)}
NewId == CHOOSE o \in FreeIds : \A x \in FreeIds : o <= x

NewPayment(method) ==
  [status |-> "PENDING", method |-> method, transactionId |-> Null,
   paidAt |-> Null, note |-> "none", createdAt |-> Null]

\* ProductsService.checkProductAvailability / validateOrderItems: every item is
\* checked on its own against the variant's current stock.
ItemsAvailable(items) ==
  \A i \in DOMAIN items : stockQuantity[items[i].variantId] >= items[i].quantity

\* ProductsService.updateProductStock: variantRepository.decrement, unconditional.
UpdateProductStock(stock, v, q) == [stock EXCEPT ![v] = @ - q]

\* ProductsService.restoreProductStock: variantRepository.increment.
RestoreProductStock(stock, v, q) == [stock EXCEPT ![v] = @ + q]

RECURSIVE RestoreAll(_, _)
RestoreAll(stock, items) ==
  IF items = <<>> THEN stock
  ELSE RestoreAll(RestoreProductStock(stock, Head(items).variantId, Head(items).quantity),
                  Tail(items))

\* OrdersService.restoreStockForFailedPayment reads the order row again and
\* restores only when that row is PENDING or CANCELLED and has items.
RestoresStock(o, dbStatus) ==
  /\ orders[o].items # <<>>
  /\ dbStatus \in {"PENDING", "CANCELLED"}

\* ---------------------------------------------------------------------------
\* OrdersService (orders.service.ts)
\* ---------------------------------------------------------------------------
procVars == <<cap, sweep>>
ghostVars == <<committed, restored, raced>>

\* OrdersService.create: validates, then saves the order WITHOUT its items
\* (items is destructured away from the row that is saved); no stock changes.
CreateOrder(items, priceOk) ==
  /\ FreeIds # {}
  /\ IF ItemsAvailable(items) /\ priceOk
     THEN /\ orders' = [orders EXCEPT ![NewId] =
                          [NoOrder EXCEPT !.status = "PENDING", !.createdAt = now]]
     ELSE UNCHANGED orders
  /\ UNCHANGED <<ledgerVars, reserveVars, createVars, payments, gwOrders, captureCalls, procVars,
                 now, ghostVars>>

\* OrdersService.createSimpleOrder: validates, then saves the order with its items.
CreateSimpleOrder(items, priceOk) ==
  /\ FreeIds # {}
  /\ IF ItemsAvailable(items) /\ priceOk
     THEN /\ orders' = [orders EXCEPT ![NewId] =
                          [NoOrder EXCEPT !.status = "PENDING", !.createdAt = now,
                                          !.items = items]]
     ELSE UNCHANGED orders
  /\ UNCHANGED <<ledgerVars, reserveVars, createVars, payments, gwOrders, captureCalls, procVars,
                 now, ghostVars>>

OrderFrame ==
  UNCHANGED <<ledgerVars, reserveVars, createVars, payments, gwOrders, captureCalls, procVars,
              now, ghostVars>>

\* OrdersService.update(id, dto) as AdminOrdersController calls it: Object.assign
\* of the note.
Update(o) ==
  /\ IF Exists(o)
     THEN /\ orders' = [orders EXCEPT ![o].note = "reason"]
     ELSE UNCHANGED orders
  /\ OrderFrame

\* OrdersService.updateStatus(id, status, notes)
UpdateStatus(o, status, notes) ==
  /\ IF Exists(o)
     THEN /\ orders' = [orders EXCEPT ![o].status = status,
                                      ![o].note = IF notes = "absent" THEN @ ELSE notes]
     ELSE UNCHANGED orders
  /\ OrderFrame

\* OrdersService.updateOrderStatus(id, status), the admin status endpoint
UpdateOrderStatus(o, status) ==
  /\ IF Exists(o)
     THEN /\ orders' = [orders EXCEPT
                          ![o].status = status,
                          ![o].canceledAt = IF status = "CANCELLED" THEN At(now) ELSE @,
                          ![o].completedAt = IF status = "COMPLETED" THEN At(now) ELSE @]
     ELSE UNCHANGED orders
  /\ OrderFrame

\* OrdersService.bulkUpdateOrders(orderIds, {status}): each id on its own; an id
\* that is not found is counted as failed and the loop goes on.
BulkUpdateOrders(ids, status) ==
  /\ orders' = [o \in Orders |->
                  IF o \in ids /\ Exists(o) THEN [orders[o] EXCEPT !.status = status]
                  ELSE orders[o]]
  /\ OrderFrame

\* The guard the three cancellations share: findOne throws NotFound, an order that
\* is COMPLETED or CANCELLED is refused with BadRequest.
CancelOutcomeCompletedAllowed(o) ==
  IF ~Exists(o) THEN "NotFound"
  ELSE IF orders[o].status = "CANCELLED" THEN "BadRequest" ELSE "ok"
CancelOutcome(o) ==
  IF ~Exists(o) THEN "NotFound"
  ELSE IF orders[o].status \in {"COMPLETED", "CANCELLED"} THEN "BadRequest" ELSE "ok"

\* What a cancellation request leaves as its outcome.
CancelResult(o, kind) ==
  [out |-> CancelOutcome(o), cause |-> "cancel", id |-> o, items |-> <<>>, method |-> kind]

\* OrdersService.cancelOrder(id, reason): what it writes
CancelOrderRows(o, reason) ==
  /\ IF CancelOutcome(o) # "ok"
     THEN UNCHANGED orders
     ELSE /\ orders' = [orders EXCEPT ![o].status = "CANCELLED",
                                      ![o].note = IF reason = "absent" THEN @ ELSE reason]
  /\ UNCHANGED <<ledgerVars, reserveVars, payments, gwOrders, captureCalls, procVars,
                 now, ghostVars>>

\* OrdersService.cancelOrder(id, reason)
CancelOrder(o, reason) == CancelOrderRows(o, reason) /\ UNCHANGED createVars

\* OrdersService.cancelOrder(id, reason), with the outcome the caller sees
CancelOrderCall(o, reason) ==
  /\ CancelOrderRows(o, reason)
  /\ crt' = CancelResult(o, "cancelOrder")
  /\ UNCHANGED <<usedCount, shippings, gen, stockBefore, conv, psweep>>

\* OrdersService.cancelOrderForUser(id, userId, reason). paid tells whether the
\* payment loaded with the order (order.payment) is PAID.
CancelOrderForUserRows(o, reason, paid) ==
  /\ IF CancelOutcome(o) # "ok"
     THEN UNCHANGED <<orders, stockQuantity, restored>>
     ELSE /\ orders' = [orders EXCEPT ![o].status = "CANCELLED",
                                      ![o].canceledAt = At(now),
                                      ![o].note = IF reason = "absent" THEN @ ELSE reason]
          \* the order row still carries its old status when
          \* restoreStockForFailedPayment reads it
          /\ IF paid /\ RestoresStock(o, orders[o].status)
             THEN /\ stockQuantity' = RestoreAll(stockQuantity, orders[o].items)
                  /\ \A v \in Variants : stockQuantity'[v] <= MaxStock
                  /\ restored' = [restored EXCEPT ![o] = TRUE]
             ELSE UNCHANGED <<stockQuantity, restored>>
  /\ UNCHANGED <<reservedQuantity, reserveVars, payments, gwOrders, captureCalls,
                 procVars, now, committed, raced>>

CancelOrderForUser(o, reason, paid) ==
  CancelOrderForUserRows(o, reason, paid) /\ UNCHANGED createVars

CancelOrderForUserCall(o, reason, paid) ==
  /\ CancelOrderForUserRows(o, reason, paid)
  /\ crt' = CancelResult(o, "cancelOrderForUser")
  /\ UNCHANGED <<usedCount, shippings, gen, stockBefore, conv, psweep>>

\* OrdersService.cancelOrderForAdmin(id, reason): the order is saved CANCELLED
\* first, then stock is restored when it was PROCESSING.
CancelOrderForAdminRows(o, reason) ==
  /\ IF CancelOutcome(o) # "ok"
     THEN UNCHANGED <<orders, stockQuantity, restored>>
     ELSE /\ orders' = [orders EXCEPT
                          ![o].status = "CANCELLED",
                          ![o].canceledAt = At(now),
                          ![o].note = IF reason = "absent" THEN @
                                      ELSE IF @ = "none" THEN "reason" ELSE "appended"]
          /\ IF orders[o].status = "PROCESSING" /\ RestoresStock(o, "CANCELLED")
             THEN /\ stockQuantity' = RestoreAll(stockQuantity, orders[o].items)
                  /\ \A v \in Variants : stockQuantity'[v] <= MaxStock
                  /\ restored' = [restored EXCEPT ![o] = TRUE]
             ELSE UNCHANGED <<stockQuantity, restored>>
  /\ UNCHANGED <<reservedQuantity, reserveVars, payments, gwOrders, captureCalls,
                 procVars, now, committed, raced>>

CancelOrderForAdmin(o, reason) ==
  CancelOrderForAdminRows(o, reason) /\ UNCHANGED createVars

CancelOrderForAdminCall(o, reason) ==
  /\ CancelOrderForAdminRows(o, reason)
  /\ crt' = CancelResult(o, "cancelOrderForAdmin")
  /\ UNCHANGED <<usedCount, shippings, gen, stockBefore, conv, psweep>>

\* ---------------------------------------------------------------------------
\* OrdersService.confirmStockReduction / releaseReservedStock
\* ---------------------------------------------------------------------------
\* The stock the ledger operations are exercised on.
LedgerStock == [v \in Variants |-> IF v = "X" THEN 4 ELSE 2]

RECURSIVE ReservedAfter(_, _)
\* reserved_quantity after one UPDATE per item:
\* GREATEST(COALESCE(reserved_quantity, 0) - quantity, 0)
ReservedAfter(reserved, items) ==
  IF items = <<>> THEN reserved
  ELSE LET it == Head(items)
       IN ReservedAfter([reserved EXCEPT ![it.variantId] = ReservedMinus(@, it.quantity)],
                        Tail(items))

RECURSIVE ReleasedStock(_, _)
\* stock_quantity after one UPDATE per item: stock_quantity + quantity
ReleasedStock(stock, items) ==
  IF items = <<>> THEN stock
  ELSE LET it == Head(items)
       IN ReleasedStock([stock EXCEPT ![it.variantId] = @ + it.quantity], Tail(items))

\* OrdersService.confirmStockReduction(orderId): NotFound when there is no such
\* order; otherwise the reserved counter of every item's variant is reduced.
ConfirmStockReduction(o) ==
  /\ IF ~Exists(o)
     THEN UNCHANGED <<reservedQuantity, committed>>
     ELSE /\ reservedQuantity' = ReservedAfter(reservedQuantity, orders[o].items)
          /\ committed' = [committed EXCEPT ![o] = @ \/ orders[o].items # <<>>]
  /\ UNCHANGED <<stockQuantity, reserveVars, createVars, orders, payments, gwOrders, captureCalls,
                 procVars, now, restored, raced>>

\* OrdersService.releaseReservedStock(orderId): NotFound when there is no such
\* order; otherwise every item's quantity is added to stock_quantity and taken
\* from the reserved counter.
ReleaseReservedStock(o) ==
  /\ IF ~Exists(o)
     THEN UNCHANGED <<stockQuantity, reservedQuantity, restored>>
     ELSE /\ stockQuantity' = ReleasedStock(stockQuantity, orders[o].items)
          /\ \A v \in Variants : stockQuantity'[v] <= MaxStock
          /\ reservedQuantity' = ReservedAfter(reservedQuantity, orders[o].items)
          /\ restored' = [restored EXCEPT ![o] = @ \/ orders[o].items # <<>>]
  /\ UNCHANGED <<reserveVars, createVars, orders, payments, gwOrders, captureCalls, procVars, now,
                 committed, raced>>

\* ---------------------------------------------------------------------------
\* PaymentsService (payments.service.ts)
\* ---------------------------------------------------------------------------
HasPaid(o) == \E k \in DOMAIN payments[o] : payments[o][k].status = "PAID"
PendingIdx(o) == {k \in DOMAIN payments[o] : payments[o][k].status = "PENDING"}

\* order.payment as loaded with the order: whether that payment can be PAID.
LoadedPaymentPaid(o) ==
  {b \in BOOLEAN :
     IF b THEN HasPaid(o)
     ELSE payments[o] = <<>> \/ \E k \in DOMAIN payments[o] : payments[o][k].status # "PAID"}

\* The id PayPalService.createOrder returns for the k-th payment of order o, and
\* the capture id the gateway returns for a captured gateway order.
PayPalOrderId(o, k) == <<"PP", o, k>>
CaptureId(pp) == <<"CAP", pp[2], pp[3]>>

\* PaymentsService.create(dto) with createPayPalPayment. gwOk: the gateway's
\* createOrder succeeded.
PaymentOutcomePaidAllowed(o) ==
  IF ~Exists(o) THEN "NotFound" ELSE "ok"
PaymentOutcome(o) ==
  IF ~Exists(o) THEN "NotFound"
  ELSE IF orders[o].isPaid THEN "Conflict" ELSE "ok"

PaymentResult(o, method) ==
  [out |-> PaymentOutcome(o), cause |-> "payment", id |-> o, items |-> <<>>,
   method |-> method]

\* createdAt is the row's creation timestamp: PaymentCreateDated carries it for
\* handleAbandonedPayments, its only reader.
PaymentCreateRows(o, method, gwOk, createdAt) ==
  /\ IF PaymentOutcome(o) # "ok"
     THEN UNCHANGED <<payments, gwOrders>>
     ELSE \E cancelK \in IF PendingIdx(o) = {} THEN {0} ELSE PendingIdx(o) :
       LET k == Len(payments[o]) + 1
           old == [i \in DOMAIN payments[o] |->
                     IF i = cancelK
                     THEN [payments[o][i] EXCEPT !.status = "CANCELLED",
                                                 !.note = "cancelledByNew"]
                     ELSE payments[o][i]]
           p == [NewPayment(method) EXCEPT !.createdAt = createdAt]
       IN IF method = "PAYPAL"
          THEN IF gwOk
               THEN /\ payments' = [payments EXCEPT ![o] =
                         Append(old, [p EXCEPT !.transactionId = PayPalOrderId(o, k)])]
                    /\ gwOrders' = gwOrders \cup {PayPalOrderId(o, k)}
               ELSE /\ payments' = [payments EXCEPT ![o] = Append(old, p)]
                    /\ UNCHANGED gwOrders
          ELSE /\ payments' = [payments EXCEPT ![o] =
                                 Append(old, [p EXCEPT !.status = "UNPAID"])]
               /\ UNCHANGED gwOrders
  /\ UNCHANGED <<ledgerVars, reserveVars, orders, captureCalls, procVars, now, ghostVars>>

PaymentCreate(o, method, gwOk) ==
  PaymentCreateRows(o, method, gwOk, Null) /\ UNCHANGED createVars

PaymentCreateDated(o, method, gwOk) ==
  PaymentCreateRows(o, method, gwOk, At(now)) /\ UNCHANGED createVars

PaymentCreateCall(o, method, gwOk) ==
  /\ PaymentCreateRows(o, method, gwOk, Null)
  /\ crt' = PaymentResult(o, method)
  /\ UNCHANGED <<usedCount, shippings, gen, stockBefore, conv, psweep>>

\* PaymentsService.retryPayment(orderId, dto): every PENDING or UNPAID payment of
\* the order is cancelled, then a new PENDING payment is saved; PAYPAL goes on to
\* createPayPalPayment, COD returns the payment as saved.
RetryPayment(o, method, gwOk) ==
  /\ IF ~Exists(o)
     THEN UNCHANGED <<payments, gwOrders>>
     ELSE LET k == Len(payments[o]) + 1
              old == [i \in DOMAIN payments[o] |->
                        IF payments[o][i].status \in {"PENDING", "UNPAID"}
                        THEN [payments[o][i] EXCEPT !.status = "CANCELLED",
                                                    !.note = "cancelledByRetry"]
                        ELSE payments[o][i]]
              p == [NewPayment(method) EXCEPT !.note = "retry"]
          IN IF method = "PAYPAL" /\ gwOk
             THEN /\ payments' = [payments EXCEPT ![o] =
                       Append(old, [p EXCEPT !.transactionId = PayPalOrderId(o, k)])]
                  /\ gwOrders' = gwOrders \cup {PayPalOrderId(o, k)}
             ELSE /\ payments' = [payments EXCEPT ![o] = Append(old, p)]
                  /\ UNCHANGED gwOrders
  /\ UNCHANGED <<ledgerVars, reserveVars, createVars, orders, captureCalls, procVars, now, ghostVars>>

\* PaymentsService.cancelPayment(id, reason) on the k-th payment of order o
CancelPayment(o, k, reason) ==
  /\ k \in DOMAIN payments[o]
  /\ IF payments[o][k].status \in {"PENDING", "UNPAID"}
     THEN payments' = [payments EXCEPT ![o][k].status = "CANCELLED",
                                       ![o][k].note = "cancelled"]
     ELSE UNCHANGED payments
  /\ UNCHANGED <<ledgerVars, reserveVars, createVars, orders, gwOrders, captureCalls, procVars, now,
                 ghostVars>>

IdleCap ==
  [pc |-> "idle", orderId |-> 0, ppId |-> Null, status |-> "none", time |-> 0,
   snap |-> NoOrder, i |-> 0, out |-> "none", cause |-> "none"]

Finished(out) == [IdleCap EXCEPT !.out = out]

\* The catch block of handlePayPalCallback: the error is logged (cause) and
\* BadRequestException('Failed to process PayPal callback') is thrown.
Failed(cause) == [Finished("BadRequest") EXCEPT !.cause = cause]

\* What the callback has done to the order's Payment rows when captureOrder
\* threw: nothing, the payment is read only after the gateway has answered.
PaymentsForcedFailed(pays, o) ==
  [pays EXCEPT ![o] = [k \in DOMAIN pays[o] |-> [pays[o][k] EXCEPT !.status = "FAILED"]]]
PaymentsAfterGatewayThrow(pays, o) == pays

SweepIds == IF sweep.pc = "saving" THEN {sweep.queue[i] : i \in DOMAIN sweep.queue} ELSE {}

\* handlePayPalCallback, first await: PayPalService.captureOrder. The gateway
\* answers with a status or throws (captureOrder rethrows as BadRequest).
CaptureGateway(c, o, pp, outcome) ==
  /\ cap[c].pc = "idle"
  /\ captureCalls < MaxCaptureCalls
  /\ captureCalls' = captureCalls + 1
  /\ IF outcome = "THROW"
     THEN /\ cap' = [cap EXCEPT ![c] = Failed("gateway")]
          /\ payments' = PaymentsAfterGatewayThrow(payments, o)
          /\ UNCHANGED raced
     ELSE /\ cap' = [cap EXCEPT ![c] = [IdleCap EXCEPT !.pc = "payment", !.orderId = o,
                                                       !.ppId = pp, !.status = outcome,
                                                       !.time = now]]
          /\ raced' = [raced EXCEPT ![o] = @ \/ o \in SweepIds]
          /\ UNCHANGED payments
  /\ UNCHANGED <<ledgerVars, reserveVars, createVars, orders, gwOrders, sweep, now, committed, restored>>

\* paymentRepository.findOne({order}) and paymentRepository.update(payment.id,
\* {status, transactionId, paidAt}); on a failed capture the method returns here.
CaptureUpdatePayment(c) ==
  /\ cap[c].pc = "payment"
  /\ LET o == cap[c].orderId
         ok == cap[c].status = "COMPLETED"
     IN IF payments[o] = <<>>
        THEN /\ cap' = [cap EXCEPT ![c] = Failed("NotFound")]
             /\ UNCHANGED payments
        ELSE \E k \in DOMAIN payments[o] :
               /\ payments' = [payments EXCEPT ![o][k] =
                    [@ EXCEPT !.status = IF ok THEN "PAID" ELSE "FAILED",
                              !.transactionId = CaptureId(cap[c].ppId),
                              !.paidAt = IF ok THEN At(cap[c].time) ELSE @]]
               /\ cap' = [cap EXCEPT ![c] =
                            IF ok THEN [@ EXCEPT !.pc = "readOrder"]
                            ELSE Finished("returned")]
  /\ UNCHANGED <<ledgerVars, reserveVars, createVars, orders, gwOrders, captureCalls, sweep, now, ghostVars>>

\* OrdersService.updatePaymentStatus(id, true, paidAt): findOne ...
CaptureReadOrder(c) ==
  /\ cap[c].pc = "readOrder"
  /\ cap' = [cap EXCEPT ![c].pc = "saveOrder", ![c].snap = orders[cap[c].orderId]]
  /\ UNCHANGED <<ledgerVars, reserveVars, createVars, orders, payments, gwOrders, captureCalls,
                 sweep, now, ghostVars>>

\* ... and save of the entity that was read.
CaptureSaveOrder(c) ==
  /\ cap[c].pc = "saveOrder"
  /\ orders' = [orders EXCEPT ![cap[c].orderId] =
                  [cap[c].snap EXCEPT !.isPaid = TRUE, !.paidAt = At(cap[c].time)]]
  /\ cap' = [cap EXCEPT ![c].pc = "stock", ![c].snap = NoOrder, ![c].i = 1]
  /\ UNCHANGED <<ledgerVars, reserveVars, createVars, payments, gwOrders, captureCalls, sweep, now, ghostVars>>

\* OrdersService.updateStockForSuccessfulPayment: an order without items throws
\* BadRequest; otherwise one updateProductStock per item, then the method returns.
CaptureStock(c) ==
  /\ cap[c].pc = "stock"
  /\ LET o == cap[c].orderId
         items == orders[o].items
     IN IF items = <<>>
        THEN /\ cap' = [cap EXCEPT ![c] = Failed("noItems")]
             /\ UNCHANGED <<stockQuantity, committed>>
        ELSE /\ stockQuantity' = UpdateProductStock(stockQuantity,
                                    items[cap[c].i].variantId, items[cap[c].i].quantity)
             /\ committed' = [committed EXCEPT ![o] = TRUE]
             /\ cap' = [cap EXCEPT ![c] =
                          IF cap[c].i = Len(items) THEN Finished("returned")
                          ELSE [@ EXCEPT !.i = @ + 1]]
  /\ UNCHANGED <<reservedQuantity, reserveVars, createVars, orders, payments, gwOrders, captureCalls,
                 sweep, now, restored, raced>>

\* ---------------------------------------------------------------------------
\* OrdersService.handleAbandonedOrders
\* ---------------------------------------------------------------------------
IdleSweep == [pc |-> "idle", queue |-> <<>>, snap |-> [o \in Orders |-> NoOrder]]

\* status = PENDING AND createdAt < thresholdDate AND
\* (payment.id IS NULL OR payment.status != PAID), over the order-payment join
Abandoned(o, thresholdMinutes) ==
  /\ orders[o].status = "PENDING"
  /\ orders[o].createdAt < now - thresholdMinutes
  /\ \/ payments[o] = <<>>
     \/ \E k \in DOMAIN payments[o] : payments[o][k].status # "PAID"

RECURSIVE SortedSeq(_)
SortedSeq(S) ==
  IF S = {} THEN <<>>
  ELSE LET m == CHOOSE x \in S : \A y \in S : x <= y
       IN <<m>> \o SortedSeq(S \ {m})

InFlight(o) == \E c \in CapProcs : cap[c].pc # "idle" /\ cap[c].orderId = o

\* The query: the orders found are held in memory as they were read.
SweepQuery(thresholdMinutes) ==
  /\ sweep.pc = "idle"
  /\ LET sel == {o \in Orders : Abandoned(o, thresholdMinutes)}
     IN /\ sweep' = IF sel = {} THEN IdleSweep
                    ELSE [pc |-> "saving", queue |-> SortedSeq(sel),
                          snap |-> [o \in Orders |-> IF o \in sel THEN orders[o]
                                                     ELSE NoOrder]]
        /\ raced' = [o \in Orders |-> raced[o] \/ (o \in sel /\ InFlight(o))]
  /\ UNCHANGED <<ledgerVars, reserveVars, createVars, orders, payments, gwOrders, captureCalls, cap,
                 now, committed, restored>>

\* One iteration of the loop: the entity read by the query is saved CANCELLED.
SweepSave ==
  /\ sweep.pc = "saving"
  /\ LET o == Head(sweep.queue)
         rest == Tail(sweep.queue)
     IN /\ orders' = [orders EXCEPT ![o] =
                        [sweep.snap[o] EXCEPT !.status = "CANCELLED",
                                              !.canceledAt = At(now),
                                              !.note = "sweep"]]
        /\ sweep' = IF rest = <<>> THEN IdleSweep
                    ELSE [sweep EXCEPT !.queue = rest, !.snap[o] = NoOrder]
  /\ UNCHANGED <<ledgerVars, reserveVars, createVars, payments, gwOrders, captureCalls, cap, now, ghostVars>>

Tick ==
  /\ now < MaxTime
  /\ now' = now + 1
  /\ UNCHANGED <<ledgerVars, reserveVars, createVars, orders, payments, gwOrders, captureCalls,
                 procVars, ghostVars>>

\* ---------------------------------------------------------------------------
\* PaymentsService.handleAbandonedPayments
\* ---------------------------------------------------------------------------
IdlePaymentSweep == [pc |-> "idle", queue |-> <<>>]

\* status PENDING or UNPAID, and createdAt < thresholdDate
AbandonedPayments(thresholdMinutes) ==
  UNION {{[o |-> o, k |-> k, row |-> payments[o][k]] :
            k \in {i \in DOMAIN payments[o] :
                     /\ payments[o][i].status \in {"PENDING", "UNPAID"}
                     /\ payments[o][i].createdAt # Null
                     /\ payments[o][i].createdAt[1] < now - thresholdMinutes}} :
         o \in Orders}

RECURSIVE FoundSeq(_)
FoundSeq(S) ==
  IF S = {} THEN <<>>
  ELSE LET m == CHOOSE x \in S : \A y \in S : x.o < y.o \/ (x.o = y.o /\ x.k <= y.k)
       IN <<m>> \o FoundSeq(S \ {m})

\* The query: the payments found are held in memory as they were read.
PaymentSweepQuery(thresholdMinutes) ==
  /\ psweep.pc = "idle"
  /\ LET found == AbandonedPayments(thresholdMinutes)
     IN psweep' = IF found = {} THEN IdlePaymentSweep
                  ELSE [pc |-> "saving", queue |-> FoundSeq(found)]
  /\ UNCHANGED <<ledgerVars, reserveVars, orders, payments, gwOrders, captureCalls,
                 procVars, now, ghostVars, usedCount, shippings, crt, gen, stockBefore,
                 conv>>

\* One iteration of the loop: the entity read by the query is saved CANCELLED
\* with the note.
PaymentSweepSave ==
  /\ psweep.pc = "saving"
  /\ LET f == Head(psweep.queue)
         rest == Tail(psweep.queue)
     IN /\ payments' = [payments EXCEPT ![f.o][f.k] =
                          [f.row EXCEPT !.status = "CANCELLED", !.note = "abandoned"]]
        /\ psweep' = IF rest = <<>> THEN IdlePaymentSweep
                     ELSE [psweep EXCEPT !.queue = rest]
  /\ UNCHANGED <<ledgerVars, reserveVars, orders, gwOrders, captureCalls, procVars, now,
                 ghostVars, usedCount, shippings, crt, gen, stockBefore, conv>>

\* ---------------------------------------------------------------------------
\* Order creation with its outcome: OrdersService.create (orders.service.ts) and
\* OrdersService.createOrder (the order service that also writes the line items,
\* the payment, the shipping and the stock)
\* ---------------------------------------------------------------------------
\* What the request carries as voucherId: none, a voucher that validateVoucher
\* accepts, one it rejects, or an accepted one with a discount that does not match.
Vouchers == {"none", "valid", "invalid", "mismatch"}

\* The amounts a request carries: one set that adds up, one whose totalPrice does not.
Amounts ==
  { [subTotal |-> 3, shippingFee |-> 1, discount |-> 1, totalPrice |-> 3],
    [subTotal |-> 3, shippingFee |-> 1, discount |-> 1, totalPrice |-> 5] }

GProcs == 1..NumCreators

IdleCreator ==
  [pc |-> "idle", items |-> <<>>, method |-> "none", voucher |-> FALSE,
   amounts |-> NoAmounts, number |-> Null, read |-> Zero]

NoRequest == [out |-> "none", cause |-> "none", id |-> 0, items |-> <<>>, method |-> "none"]

Created(o, items, method) ==
  [out |-> "ok", cause |-> "none", id |-> o, items |-> items, method |-> method]

Rejected(out, cause, items, method) ==
  [out |-> out, cause |-> cause, id |-> 0, items |-> items, method |-> method]

\* create: incrementUsage is called after the validations and the save, for a
\* request that carries a voucher.
UsageCountedEarly(ok, voucher) == voucher = "valid"
UsageCounted(ok, voucher) == ok /\ voucher = "valid"

\* OrdersService.create: validateOrderItems, the voucher checks, the save of the
\* order without its items, incrementUsage. Every error leaves as BadRequest.
OrdersCreate(items, priceOk, voucher, amounts) ==
  /\ FreeIds # {}
  /\ LET itemsOk == ItemsAvailable(items) /\ priceOk
         voucherOk == voucher \in {"none", "valid"}
         ok == itemsOk /\ voucherOk
     IN /\ orders' = IF ok
                      THEN [orders EXCEPT ![NewId] =
                              [NoOrder EXCEPT !.status = "PENDING", !.createdAt = now,
                                              !.voucher = (voucher = "valid"),
                                              !.amounts = amounts]]
                      ELSE orders
        /\ usedCount' = IF UsageCounted(ok, voucher) THEN usedCount + 1 ELSE usedCount
        /\ crt' = IF ok THEN Created(NewId, items, "none")
                  ELSE Rejected("BadRequest", IF itemsOk THEN "voucher" ELSE "items",
                                items, "none")
  /\ UNCHANGED <<ledgerVars, reserveVars, payments, gwOrders, captureCalls, procVars,
                 now, ghostVars, shippings, gen, stockBefore, conv, psweep>>

\* createOrder's last loop: each validated item's entity, read during validation,
\* has its quantity subtracted and is saved whole.
RECURSIVE StockAfterCreate(_, _, _)
StockAfterCreate(read, stock, items) ==
  IF items = <<>> THEN stock
  ELSE LET it == Head(items)
       IN StockAfterCreate(read,
                           [stock EXCEPT ![it.variantId] = read[it.variantId] - it.quantity],
                           Tail(items))

\* generateOrderNumber of createOrder: the date and, as sequence, one more than
\* the orders counted. The count's condition is
\* MoreThanOrEqual(startOfDay) && LessThan(endOfDay), which is its second operand:
\* every order created before the end of the day is counted.
OrderNumber ==
  <<now, Cardinality({o \in Orders : Exists(o) /\ orders[o].createdAt < now + 1}) + 1>>

\* What createOrder's voucherId is: none, a voucher that voucherRepository.findOne
\* finds, or one it does not find.
VoucherRefs == {"none", "valid", "missing"}

\* OrdersService.createOrder: the user, the voucher and each item's stock are
\* checked; then the order, its items, the payment (UNPAID), the shipping and the
\* stock are written, in this order.
CreateOrderWithPayment(items, paymentMethod, userOk, voucher, amounts) ==
  /\ FreeIds # {}
  /\ LET voucherOk == voucher # "missing"
         itemsOk == \A i \in DOMAIN items :
                      ~(stockQuantity[items[i].variantId] < items[i].quantity)
         ok == userOk /\ voucherOk /\ itemsOk
     IN IF ok
        THEN /\ orders' = [orders EXCEPT ![NewId] =
                             [NoOrder EXCEPT !.status = "PENDING", !.createdAt = now,
                                             !.items = items,
                                             !.voucher = (voucher = "valid"),
                                             !.amounts = amounts,
                                             !.orderNumber = OrderNumber]]
             /\ payments' = [payments EXCEPT ![NewId] =
                               <<[NewPayment(paymentMethod) EXCEPT !.status = "UNPAID"]>>]
             /\ shippings' = shippings \cup {NewId}
             /\ stockQuantity' = StockAfterCreate(stockQuantity, stockQuantity, items)
             /\ stockBefore' = [stockBefore EXCEPT ![NewId] = stockQuantity]
             /\ crt' = Created(NewId, items, paymentMethod)
        ELSE /\ crt' = Rejected(IF userOk /\ voucherOk THEN "BadRequest" ELSE "NotFound",
                                IF ~userOk THEN "user"
                                ELSE IF ~voucherOk THEN "voucher" ELSE "items",
                                items, paymentMethod)
             /\ UNCHANGED <<orders, payments, shippings, stockQuantity, stockBefore>>
  /\ UNCHANGED <<reservedQuantity, reserveVars, gwOrders, captureCalls, procVars, now,
                 ghostVars, usedCount, gen, conv, psweep>>

\* createOrder in two steps, as concurrent calls interleave: the checks and the
\* count of generateOrderNumber, then the writes.
CreateOrderCheck(p, items, paymentMethod, userOk, voucher, amounts) ==
  /\ gen[p].pc = "idle"
  /\ Cardinality(FreeIds) > Cardinality({q \in GProcs : gen[q].pc # "idle"})
  /\ LET voucherOk == voucher # "missing"
         itemsOk == \A i \in DOMAIN items :
                      ~(stockQuantity[items[i].variantId] < items[i].quantity)
     IN IF userOk /\ voucherOk /\ itemsOk
        THEN /\ gen' = [gen EXCEPT ![p] = [pc |-> "write", items |-> items,
                                           method |-> paymentMethod,
                                           voucher |-> (voucher = "valid"),
                                           amounts |-> amounts,
                                           number |-> OrderNumber,
                                           read |-> stockQuantity]]
             /\ UNCHANGED crt
        ELSE /\ crt' = Rejected(IF userOk /\ voucherOk THEN "BadRequest" ELSE "NotFound",
                                IF ~userOk THEN "user"
                                ELSE IF ~voucherOk THEN "voucher" ELSE "items",
                                items, paymentMethod)
             /\ UNCHANGED gen
  /\ UNCHANGED <<ledgerVars, reserveVars, orders, payments, gwOrders, captureCalls,
                 procVars, now, ghostVars, usedCount, shippings, stockBefore, conv, psweep>>

CreateOrderWrite(p) ==
  /\ gen[p].pc = "write"
  /\ orders' = [orders EXCEPT ![NewId] =
                  [NoOrder EXCEPT !.status = "PENDING", !.createdAt = now,
                                  !.items = gen[p].items,
                                  !.voucher = gen[p].voucher,
                                  !.amounts = gen[p].amounts,
                                  !.orderNumber = gen[p].number]]
  /\ payments' = [payments EXCEPT ![NewId] =
                    <<[NewPayment(gen[p].method) EXCEPT !.status = "UNPAID"]>>]
  /\ shippings' = shippings \cup {NewId}
  /\ stockQuantity' = StockAfterCreate(gen[p].read, stockQuantity, gen[p].items)
  /\ stockBefore' = [stockBefore EXCEPT ![NewId] = gen[p].read]
  /\ crt' = Created(NewId, gen[p].items, gen[p].method)
  /\ gen' = [gen EXCEPT ![p] = IdleCreator]
  /\ UNCHANGED <<reservedQuantity, reserveVars, gwOrders, captureCalls, procVars, now,
                 ghostVars, usedCount, conv, psweep>>

\* What paypalService.createOrder answers createOrderWithPayPal: an order with its
\* approve link, an order without one, or a BadRequestException.
GatewayAnswers == {"approve", "noLink", "failed"}

\* The two createOrderWithPayPal differ in their catch. One updates the order it
\* created to CANCELLED. The other has createOrder inside the try and updates
\* error.order.id when the error has an order: the BadRequestException of
\* paypalService.createOrder and the Error for the missing link have none.
CaughtOrder == [o \in Orders |-> At(o)]
CaughtErrorOrder == [o \in Orders |-> Null]

PayPalFailed(o, items, method) ==
  [out |-> "Error", cause |-> "paypal", id |-> o, items |-> items, method |-> method]

\* createOrderWithPayPal(dto): createOrder, then paypalService.createOrder for the
\* order's total; the order's payment gets the gateway order's id and PENDING; a
\* missing approve link throws; the catch cancels the order it is given (caught)
\* and throws an Error. wrapped tells that createOrder runs inside the try.
CreateOrderWithPayPalRows(items, paymentMethod, userOk, voucher, amounts, gateway, caught, wrapped) ==
  /\ FreeIds # {}
  /\ LET voucherOk == voucher # "missing"
         itemsOk == \A i \in DOMAIN items :
                      ~(stockQuantity[items[i].variantId] < items[i].quantity)
         ok == userOk /\ voucherOk /\ itemsOk
         order == [NoOrder EXCEPT !.status = "PENDING", !.createdAt = now,
                                  !.items = items,
                                  !.voucher = (voucher = "valid"),
                                  !.amounts = amounts,
                                  !.orderNumber = OrderNumber]
         unpaid == [NewPayment(paymentMethod) EXCEPT !.status = "UNPAID"]
         pending == [unpaid EXCEPT !.transactionId = PayPalOrderId(NewId, 1),
                                   !.status = "PENDING"]
     IN IF ok
        THEN /\ orders' = [orders EXCEPT ![NewId] =
                             IF gateway # "approve" /\ caught[NewId] = At(NewId)
                             THEN [order EXCEPT !.status = "CANCELLED"]
                             ELSE order]
             /\ payments' = [payments EXCEPT ![NewId] =
                               <<IF gateway = "failed" THEN unpaid ELSE pending>>]
             /\ gwOrders' = IF gateway = "failed" THEN gwOrders
                            ELSE gwOrders \cup {PayPalOrderId(NewId, 1)}
             /\ shippings' = shippings \cup {NewId}
             /\ stockQuantity' = StockAfterCreate(stockQuantity, stockQuantity, items)
             /\ stockBefore' = [stockBefore EXCEPT ![NewId] = stockQuantity]
             /\ crt' = IF gateway = "approve"
                       THEN Created(NewId, items, paymentMethod)
                       ELSE PayPalFailed(NewId, items, paymentMethod)
        ELSE /\ crt' = Rejected(IF wrapped THEN "Error"
                                ELSE IF userOk /\ voucherOk THEN "BadRequest"
                                ELSE "NotFound",
                                IF ~userOk THEN "user"
                                ELSE IF ~voucherOk THEN "voucher" ELSE "items",
                                items, paymentMethod)
             /\ UNCHANGED <<orders, payments, gwOrders, shippings, stockQuantity,
                            stockBefore>>
  /\ UNCHANGED <<reservedQuantity, reserveVars, captureCalls, procVars, now,
                 ghostVars, usedCount, gen, conv, psweep>>

CreateOrderWithPayPalCancelling(items, paymentMethod, userOk, voucher, amounts, gateway) ==
  /\ gateway \in GatewayAnswers
  /\ CreateOrderWithPayPalRows(items, paymentMethod, userOk, voucher, amounts,
                               gateway, CaughtOrder, FALSE)

CreateOrderWithPayPal(items, paymentMethod, userOk, voucher, amounts, gateway) ==
  /\ gateway \in GatewayAnswers
  /\ CreateOrderWithPayPalRows(items, paymentMethod, userOk, voucher, amounts,
                               gateway, CaughtErrorOrder, TRUE)

\* OrdersService.remove(id), the admin DELETE endpoint: findOne, then
\* orderRepository.remove(order), whatever the order's state. Whether the store
\* refuses the delete of an order that other rows refer to depends on the
\* entities' foreign keys, which are not part of the sources: refused tells.
Remove(o, refused) ==
  /\ IF ~Exists(o) \/ (refused /\ (payments[o] # <<>> \/ o \in shippings))
     THEN UNCHANGED <<orders, payments, shippings, stockBefore>>
     ELSE /\ orders' = [orders EXCEPT ![o] = NoOrder]
          /\ payments' = [payments EXCEPT ![o] = <<>>]
          /\ shippings' = shippings \ {o}
          /\ stockBefore' = [stockBefore EXCEPT ![o] = Zero]
  /\ UNCHANGED <<ledgerVars, reserveVars, gwOrders, captureCalls, procVars, now,
                 ghostVars, usedCount, crt, gen, conv, psweep>>

\* updateOrderStatus, CANCELLED: item.variant.stockQuantity += item.quantity on the
\* variant entity that findOrderById loaded with the item.
RestockedByOne(read, it) == read[it.variantId] + 1
Restocked(read, it) == read[it.variantId] + it.quantity

\* The loop over order.items: each item carries its own variant entity, as loaded,
\* and each is saved whole.
RECURSIVE StockAfterCancel(_, _, _)
StockAfterCancel(read, stock, items) ==
  IF items = <<>> THEN stock
  ELSE LET it == Head(items)
       IN StockAfterCancel(read, [stock EXCEPT ![it.variantId] = Restocked(read, it)],
                           Tail(items))

StatusUpdated(o, status) ==
  [out |-> "ok", cause |-> "status", id |-> o, items |-> orders[o].items,
   method |-> status]

\* OrdersService.updateOrderStatus(id, status) of the createOrder service: any
\* status is written on any order; CANCELLED gives the items' quantities back.
UpdateOrderStatusRestock(o, status) ==
  /\ IF Exists(o)
     THEN /\ orders' = [orders EXCEPT
                          ![o].status = status,
                          ![o].canceledAt = IF status = "CANCELLED" THEN At(now) ELSE @,
                          ![o].completedAt = IF status = "COMPLETED" THEN At(now) ELSE @]
          /\ stockQuantity' = IF status = "CANCELLED"
                              THEN StockAfterCancel(stockQuantity, stockQuantity,
                                                    orders[o].items)
                              ELSE stockQuantity
          /\ \A v \in Variants : stockQuantity'[v] <= MaxStock
          /\ crt' = StatusUpdated(o, status)
     ELSE /\ crt' = Rejected("NotFound", "status", <<>>, status)
          /\ UNCHANGED <<orders, stockQuantity>>
  /\ UNCHANGED <<reservedQuantity, reserveVars, payments, gwOrders, captureCalls,
                 procVars, now, ghostVars, usedCount, shippings, gen, stockBefore,
                 conv, psweep>>

\* ---------------------------------------------------------------------------
\* OrderItemsService (update, remove)
\* ---------------------------------------------------------------------------
\* UpdateOrderItemDto.quantity: left out of the request (the empty sequence), or a
\* new quantity.
NewQuantities == {<<>>, <<1>>, <<2>>}

RemoveAt(s, i) == [k \in 1..(Len(s) - 1) |-> IF k < i THEN s[k] ELSE s[k + 1]]

\* OrderItemsService.update(id, dto): the item is looked up (NotFound when it does
\* not exist) and the fields the request carries are written, whatever the state
\* of the order. Of those fields the model's items carry the quantity.
OrderItemUpdate(o, i, quantity) ==
  /\ IF Exists(o) /\ i \in DOMAIN orders[o].items /\ quantity # <<>>
     THEN orders' = [orders EXCEPT ![o].items[i].quantity = quantity[1]]
     ELSE UNCHANGED orders
  /\ OrderFrame

\* OrderItemsService.remove(id): the item row is deleted.
OrderItemRemove(o, i) ==
  /\ IF Exists(o) /\ i \in DOMAIN orders[o].items
     THEN orders' = [orders EXCEPT ![o].items = RemoveAt(@, i)]
     ELSE UNCHANGED orders
  /\ OrderFrame

\* ---------------------------------------------------------------------------
\* PayPalService.convertCurrencyForPayPal (paypal.service.ts)
\* ---------------------------------------------------------------------------
\* Amounts are whole numbers of the request's currency; an amount in USD that the
\* function returns is held in cents.

\* VND_TO_USD_RATE = 0.000041, in millionths of a USD per VND
VND_TO_USD_RATE == 41

\* PAYPAL_MIN_AMOUNTS.USD = 0.5, in cents
PAYPAL_MIN_AMOUNTS_USD == 50

\* SUPPORTED_CURRENCIES, of which the model has USD
SUPPORTED_CURRENCIES == {"USD"}

\* The currencies of the requests: VND, a supported one, an unsupported other one.
Currencies == {"VND", "USD", "KRW"}

\* The amounts of the requests: every 5,000 up to the bound, and the amounts on
\* both sides of where the converted amount reaches 49.5, 50 and 50.5 cents.
ConvertedAmounts ==
  {5000 * k : k \in 0..MaxVndSteps} \cup {12073, 12074, 12195, 12196, 12317, 12318}

\* The amounts below 2,000,000 for which amount * 0.000041 * 100, exactly a whole
\* number of cents and a half, is as a product of doubles just below it (25000
\* gives 102.49999999999999).
RoundedDownTies == {25000, 205000, 925000, 945000, 1685000, 1725000, 1765000, 1975000}

\* Math.round(amount * rate * 100), rate in millionths: to the nearest whole
\* number, a half going up, of the product as the doubles give it.
RoundedCents(amount, rate) ==
  LET exact == (2 * rate * amount + 10000) \div 20000
  IN IF rate = 41 /\ amount \in RoundedDownTies THEN exact - 1 ELSE exact

\* if (usdAmount < PAYPAL_MIN_AMOUNTS.USD) return the minimum
BelowMinimumKept(cents) == cents
BelowMinimumRaised(cents) ==
  IF cents < PAYPAL_MIN_AMOUNTS_USD THEN PAYPAL_MIN_AMOUNTS_USD ELSE cents

ConvertCurrencyForPayPal(amount, currency) ==
  IF currency \notin SUPPORTED_CURRENCIES
  THEN IF currency = "VND"
       THEN [amount |-> BelowMinimumRaised(RoundedCents(amount, VND_TO_USD_RATE)),
             currency |-> "USD"]
       ELSE [amount |-> BelowMinimumRaised(RoundedCents(amount, 41)),
             currency |-> "USD"]
  ELSE [amount |-> 100 * amount, currency |-> currency]

NoConverted == [amount |-> 0, currency |-> "none"]
NoCall == [amount |-> 0, currency |-> "none", out |-> NoConverted]

Conversion(amount, currency, prev) ==
  [pc |-> "called", amount |-> amount, currency |-> currency, out |-> NoConverted,
   prev |-> prev]

NoConversion == [pc |-> "idle", amount |-> 0, currency |-> "none", out |-> NoConverted,
                 prev |-> NoCall]

ConvertFrame ==
  UNCHANGED <<ledgerVars, reserveVars, orders, payments, gwOrders, captureCalls,
              procVars, now, ghostVars, usedCount, shippings, crt, gen, stockBefore,
              psweep>>

\* PayPalService.createOrder calls convertCurrencyForPayPal(params.amount,
\* params.currency || 'VND') and sends what it returns.
ConvertCurrency ==
  /\ conv.pc = "called"
  /\ conv' = [conv EXCEPT !.pc = "returned",
                           !.out = ConvertCurrencyForPayPal(conv.amount, conv.currency)]
  /\ ConvertFrame

\* The next gateway order is opened.
NextConversion(amount, currency) ==
  /\ conv.pc = "returned"
  /\ conv' = Conversion(amount, currency,
                        [amount |-> conv.amount, currency |-> conv.currency,
                         out |-> conv.out])
  /\ ConvertFrame

\* ---------------------------------------------------------------------------
\* Specifications
\* ---------------------------------------------------------------------------
InitStore ==
  /\ orders = [o \in Orders |-> NoOrder]
  /\ payments = [o \in Orders |-> <<>>]
  /\ gwOrders = {}
  /\ captureCalls = 0
  /\ cap = [c \in CapProcs |-> IdleCap]
  /\ sweep = IdleSweep
  /\ now = 0
  /\ committed = [o \in Orders |-> FALSE]
  /\ restored = [o \in Orders |-> FALSE]
  /\ raced = [o \in Orders |-> FALSE]
  /\ usedCount = 0
  /\ shippings = {}
  /\ crt = NoRequest
  /\ gen = [p \in GProcs |-> IdleCreator]
  /\ stockBefore = [o \in Orders |-> Zero]
  /\ psweep = IdlePaymentSweep

InitReserve ==
  /\ InitLedger
  /\ InitStore
  /\ rsv = [p \in RProcs |-> IdleReserver]
  /\ succeededQty = Zero
  /\ conv = NoConversion

Init == InitReserve

InitLedgerOps ==
  /\ stockQuantity = LedgerStock
  /\ reservedQuantity = Zero
  /\ InitStore
  /\ rsv = [p \in RProcs |-> IdleReserver]
  /\ succeededQty = Zero
  /\ conv = NoConversion

\* Stock for three orders, so that an order can be created after one was removed.
AmpleStock == [v \in Variants |-> IF v = "X" THEN 6 ELSE 3]

InitNumbers ==
  /\ stockQuantity = AmpleStock
  /\ reservedQuantity = Zero
  /\ InitStore
  /\ rsv = [p \in RProcs |-> IdleReserver]
  /\ succeededQty = Zero
  /\ conv = NoConversion

\* A gateway order being opened for any of the amounts, in any of the currencies.
InitConvert ==
  /\ InitLedger
  /\ InitStore
  /\ rsv = [p \in RProcs |-> IdleReserver]
  /\ succeededQty = Zero
  /\ \E amount \in ConvertedAmounts, currency \in Currencies :
       conv = Conversion(amount, currency, NoCall)

NextReserve ==
  \/ \E p \in RProcs, items \in ItemLists : ReserveStart(p, items)
  \/ \E p \in RProcs, dbError \in BOOLEAN : ReserveItem(p, dbError)
  \/ \E p \in RProcs : RollbackItem(p)
  \/ \E p \in RProcs : RollbackDone(p)
  \/ \E p \in RProcs : ReserveReturn(p)

\* The checkout flow: order creation, payment, capture, cancellation, sweeping.
Next ==
  \/ \E items \in OrderItemLists, priceOk \in BOOLEAN : CreateOrder(items, priceOk)
  \/ \E items \in OrderItemLists, priceOk \in BOOLEAN : CreateSimpleOrder(items, priceOk)
  \/ \E o \in Orders, r \in Reasons : \E paid \in LoadedPaymentPaid(o) :
       CancelOrderForUser(o, r, paid)
  \/ \E o \in Orders, m \in PaymentMethods, gwOk \in BOOLEAN :
       Len(payments[o]) < MaxPayments /\ PaymentCreate(o, m, gwOk)
  \/ \E c \in CapProcs, o \in Orders, pp \in gwOrders,
        outcome \in {"COMPLETED", "DECLINED", "THROW"} : CaptureGateway(c, o, pp, outcome)
  \/ \E c \in CapProcs : CaptureUpdatePayment(c)
  \/ \E c \in CapProcs : CaptureReadOrder(c)
  \/ \E c \in CapProcs : CaptureSaveOrder(c)
  \/ \E c \in CapProcs : CaptureStock(c)
  \/ \E t \in Thresholds : SweepQuery(t)
  \/ SweepSave
  \/ Tick

\* The administration of orders: the status setters and the cancellations.
NextAdmin ==
  \/ \E items \in OrderItemLists, priceOk \in BOOLEAN : CreateSimpleOrder(items, priceOk)
  \/ \E o \in Orders : Update(o)
  \/ \E o \in Orders, s \in OrderStatus, n \in Reasons : UpdateStatus(o, s, n)
  \/ \E o \in Orders, s \in OrderStatus : UpdateOrderStatus(o, s)
  \/ \E ids \in SUBSET Orders, s \in OrderStatus : BulkUpdateOrders(ids, s)
  \/ \E o \in Orders, r \in Reasons : CancelOrder(o, r)
  \/ \E o \in Orders, r \in Reasons : \E paid \in LoadedPaymentPaid(o) :
       CancelOrderForUser(o, r, paid)
  \/ \E o \in Orders, r \in Reasons : CancelOrderForAdmin(o, r)
  \/ Tick

\* The payments of an order: creation, retry and cancellation.
NextPayments ==
  \/ \E items \in OrderItemLists, priceOk \in BOOLEAN : CreateSimpleOrder(items, priceOk)
  \/ \E o \in Orders, m \in PaymentMethods, gwOk \in BOOLEAN :
       Len(payments[o]) < MaxOrderPayments /\ PaymentCreate(o, m, gwOk)
  \/ \E o \in Orders, m \in PaymentMethods, gwOk \in BOOLEAN :
       Len(payments[o]) < MaxOrderPayments /\ RetryPayment(o, m, gwOk)
  \/ \E o \in Orders, k \in 1..MaxOrderPayments, r \in Reasons : CancelPayment(o, k, r)

\* The ledger operations as any caller may use them: reservations (one call at a
\* time, their concurrency is SpecReserve's), orders with items, commits and
\* releases.
NextLedger ==
  \/ \E p \in RProcs, items \in ItemLists :
       /\ \A q \in RProcs : rsv[q].pc = "idle"
       /\ \A v \in Variants : succeededQty[v] + Need(items)[v] <= LedgerStock[v]
       /\ ReserveStart(p, items)
  \/ \E p \in RProcs, dbError \in BOOLEAN : ReserveItem(p, dbError)
  \/ \E p \in RProcs : RollbackItem(p)
  \/ \E p \in RProcs : RollbackDone(p)
  \/ \E p \in RProcs : ReserveReturn(p)
  \/ \E items \in OrderItemLists, priceOk \in BOOLEAN : CreateSimpleOrder(items, priceOk)
  \/ \E o \in Orders : ConfirmStockReduction(o)
  \/ \E o \in Orders : ReleaseReservedStock(o)

\* The sweeper at work: orders are placed before the clock's last tick, paid for,
\* captured or cancelled by the customer, while the sweeper runs.
NextSweep ==
  \/ \E items \in OrderItemLists, priceOk \in BOOLEAN :
       now < MaxTime /\ CreateSimpleOrder(items, priceOk)
  \/ \E o \in Orders, r \in Reasons : \E paid \in LoadedPaymentPaid(o) :
       CancelOrderForUser(o, r, paid)
  \/ \E o \in Orders, m \in PaymentMethods, gwOk \in BOOLEAN :
       Len(payments[o]) < MaxPayments /\ PaymentCreate(o, m, gwOk)
  \/ \E c \in CapProcs, o \in Orders, pp \in gwOrders,
        outcome \in {"COMPLETED", "DECLINED", "THROW"} : CaptureGateway(c, o, pp, outcome)
  \/ \E c \in CapProcs : CaptureUpdatePayment(c)
  \/ \E c \in CapProcs : CaptureReadOrder(c)
  \/ \E c \in CapProcs : CaptureSaveOrder(c)
  \/ \E c \in CapProcs : CaptureStock(c)
  \/ \E t \in Thresholds : SweepQuery(t)
  \/ SweepSave
  \/ Tick

\* Order creation by either service, and the payment request that follows create.
NextCreate ==
  \/ \E items \in OrderItemLists, priceOk \in BOOLEAN, voucher \in Vouchers,
        amounts \in Amounts :
       OrdersCreate(items, priceOk, voucher, amounts)
  \/ \E items \in OrderItemLists, m \in PaymentMethods, userOk \in BOOLEAN,
        voucher \in VoucherRefs, amounts \in Amounts :
       CreateOrderWithPayment(items, m, userOk, voucher, amounts)
  \/ \E o \in Orders, m \in PaymentMethods, gwOk \in BOOLEAN :
       Len(payments[o]) < MaxPayments /\ PaymentCreate(o, m, gwOk)
  \/ Tick

\* Cancellation requests on orders whose items a caller may have reserved.
NextCancel ==
  \/ \E p \in RProcs, items \in OrderItemLists :
       /\ \A q \in RProcs : rsv[q].pc = "idle"
       /\ \A v \in Variants : succeededQty[v] + Need(items)[v] <= LedgerStock[v]
       /\ ReserveStart(p, items)
  \/ \E p \in RProcs, dbError \in BOOLEAN : ReserveItem(p, dbError)
  \/ \E p \in RProcs : RollbackItem(p)
  \/ \E p \in RProcs : RollbackDone(p)
  \/ \E p \in RProcs : ReserveReturn(p)
  \/ \E items \in OrderItemLists, priceOk \in BOOLEAN : CreateSimpleOrder(items, priceOk)
  \/ \E o \in Orders, s \in {"PROCESSING", "COMPLETED"} :
       orders[o].status \in {"PENDING", "PROCESSING"} /\ UpdateOrderStatus(o, s)
  \/ \E o \in Orders, r \in Reasons : CancelOrderCall(o, r)
  \/ \E o \in Orders, r \in Reasons : \E paid \in LoadedPaymentPaid(o) :
       CancelOrderForUserCall(o, r, paid)
  \/ \E o \in Orders, r \in Reasons : CancelOrderForAdminCall(o, r)

\* createOrder calls side by side, the admin's delete, the days going by.
NextNumbers ==
  \/ \E p \in GProcs, items \in OrderItemLists, m \in PaymentMethods, userOk \in BOOLEAN,
        voucher \in {"none", "missing"} :
       CreateOrderCheck(p, items, m, userOk, voucher, NoAmounts)
  \/ \E p \in GProcs : CreateOrderWrite(p)
  \/ \E o \in Orders, refused \in BOOLEAN : Remove(o, refused)
  \/ Tick

\* Orders with line items and the order-item endpoints.
NextItems ==
  \/ \E items \in OrderItemLists, priceOk \in BOOLEAN : CreateSimpleOrder(items, priceOk)
  \/ \E o \in Orders, i \in 1..MaxItems, q \in NewQuantities : OrderItemUpdate(o, i, q)
  \/ \E o \in Orders, i \in 1..MaxItems : OrderItemRemove(o, i)
  \/ Tick

\* Orders placed by createOrder and moved by updateOrderStatus.
NextRestock ==
  \/ \E items \in ItemLists, userOk \in BOOLEAN :
       CreateOrderWithPayment(items, "COD", userOk, "none", NoAmounts)
  \/ \E o \in Orders, s \in {"PROCESSING", "COMPLETED", "CANCELLED"} :
       UpdateOrderStatusRestock(o, s)
  \/ Tick

\* Gateway orders opened one after the other.
NextConvert ==
  \/ ConvertCurrency
  \/ \E amount \in ConvertedAmounts, currency \in Currencies :
       NextConversion(amount, currency)

\* Orders cancelled, put back to an open status by the admin, and cancelled again.
NextRestore ==
  \/ \E items \in ItemLists, priceOk \in BOOLEAN : CreateSimpleOrder(items, priceOk)
  \/ \E o \in Orders, s \in {"PENDING", "PROCESSING"}, n \in Reasons :
       UpdateStatus(o, s, n)
  \/ \E o \in Orders, r \in Reasons : \E paid \in LoadedPaymentPaid(o) :
       CancelOrderForUser(o, r, paid)
  \/ \E o \in Orders, r \in Reasons : CancelOrderForAdmin(o, r)

\* Paid orders, moved to PROCESSING by the admin or not, cancelled by the customer.
NextPaidCancel ==
  \/ \E items \in OrderItemLists, priceOk \in BOOLEAN : CreateSimpleOrder(items, priceOk)
  \/ \E o \in Orders, gwOk \in BOOLEAN :
       Len(payments[o]) < MaxPayments /\ PaymentCreate(o, "PAYPAL", gwOk)
  \/ \E c \in CapProcs, o \in Orders, pp \in gwOrders :
       CaptureGateway(c, o, pp, "COMPLETED")
  \/ \E c \in CapProcs : CaptureUpdatePayment(c)
  \/ \E c \in CapProcs : CaptureReadOrder(c)
  \/ \E c \in CapProcs : CaptureSaveOrder(c)
  \/ \E c \in CapProcs : CaptureStock(c)
  \/ \E o \in Orders : UpdateStatus(o, "PROCESSING", "absent")
  \/ \E o \in Orders, r \in Reasons : \E paid \in LoadedPaymentPaid(o) :
       CancelOrderForUserCall(o, r, paid)

\* The payment sweeper beside payments being opened and captured.
NextPaymentSweep ==
  \/ \E items \in OrderItemLists, priceOk \in BOOLEAN :
       now < MaxTime /\ CreateSimpleOrder(items, priceOk)
  \/ \E o \in Orders, m \in PaymentMethods, gwOk \in BOOLEAN :
       Len(payments[o]) < MaxPayments /\ PaymentCreateDated(o, m, gwOk)
  \/ \E c \in CapProcs, o \in Orders, pp \in gwOrders,
        outcome \in {"COMPLETED", "DECLINED"} : CaptureGateway(c, o, pp, outcome)
  \/ \E c \in CapProcs : CaptureUpdatePayment(c)
  \/ \E c \in CapProcs : CaptureReadOrder(c)
  \/ \E c \in CapProcs : CaptureSaveOrder(c)
  \/ \E c \in CapProcs : CaptureStock(c)
  \/ \E t \in Thresholds : PaymentSweepQuery(t)
  \/ PaymentSweepSave
  \/ Tick

\* Payments asked for again for orders that a callback marked paid, or not yet.
NextPayAgain ==
  \/ \E items \in OrderItemLists, priceOk \in BOOLEAN : CreateSimpleOrder(items, priceOk)
  \/ \E o \in Orders, m \in PaymentMethods, gwOk \in BOOLEAN :
       /\ Len(payments[o]) < MaxPayments \/ (Exists(o) /\ orders[o].isPaid)
       /\ PaymentCreateCall(o, m, gwOk)
  \/ \E c \in CapProcs, o \in Orders, pp \in gwOrders :
       CaptureGateway(c, o, pp, "COMPLETED")
  \/ \E c \in CapProcs : CaptureUpdatePayment(c)
  \/ \E c \in CapProcs : CaptureReadOrder(c)
  \/ \E c \in CapProcs : CaptureSaveOrder(c)
  \/ \E c \in CapProcs : CaptureStock(c)

vars == <<stockQuantity, reservedQuantity, rsv, succeededQty, orders, payments, gwOrders,
          captureCalls, cap, sweep, now, committed, restored, raced, usedCount, shippings,
          crt, gen, stockBefore, conv, psweep>>

SpecReserve == InitReserve /\ [][NextReserve]_vars

Spec == Init /\ [][Next]_vars

SpecAdmin == Init /\ [][NextAdmin]_vars

SpecPayments == Init /\ [][NextPayments]_vars

SpecLedger == InitLedgerOps /\ [][NextLedger]_vars

SpecCancel == InitLedgerOps /\ [][NextCancel]_vars

SpecNumbers == InitNumbers /\ [][NextNumbers]_vars

SpecItems == Init /\ [][NextItems]_vars

SpecRestock == Init /\ [][NextRestock]_vars

SpecConvert == InitConvert /\ [][NextConvert]_vars

SpecRestore == Init /\ [][NextRestore]_vars

SpecPaidCancel == Init /\ [][NextPaidCancel]_vars

SpecPaymentSweep == Init /\ [][NextPaymentSweep]_vars

SpecPayAgain == Init /\ [][NextPayAgain]_vars

\* Orders placed through createOrderWithPayPal, by either implementation, and the
\* clock.
NextPayPalOrder ==
  \/ \E items \in OrderItemLists, m \in PaymentMethods, userOk \in BOOLEAN,
        voucher \in VoucherRefs, amounts \in Amounts, gateway \in GatewayAnswers :
       CreateOrderWithPayPal(items, m, userOk, voucher, amounts, gateway)
  \/ \E items \in OrderItemLists, m \in PaymentMethods, userOk \in BOOLEAN,
        voucher \in VoucherRefs, amounts \in Amounts, gateway \in GatewayAnswers :
       CreateOrderWithPayPalCancelling(items, m, userOk, voucher, amounts, gateway)
  \/ Tick

SpecPayPalOrder == Init /\ [][NextPayPalOrder]_vars

SpecCreate == Init /\ [][NextCreate]_vars

\* The sweeper keeps being run and time advances: a run that has something to cancel
\* is eventually started, a started run goes through its loop, the clock ticks.
SpecSweep ==
  /\ Init
  /\ [][NextSweep]_vars
  /\ WF_vars(\E t \in Thresholds : SweepQuery(t))
  /\ WF_vars(SweepSave)
  /\ WF_vars(Tick)

\* ---------------------------------------------------------------------------
\* Claims
\* ---------------------------------------------------------------------------

\* C1: no oversell. Under any interleaving of concurrent reserveStockForOrder
\* calls, the quantities of the calls that succeeded sum, per variant, to at
\* most the variant's initial stock_quantity.
C1_NoOversell == \A v \in Variants : succeededQty[v] <= InitStock[v]

\* C1 witness: two calls ran on one variant, one succeeded, the other was
\* refused, and granting the refused one too would have oversold the variant.
C1_Witness ==
  \E p, q \in RProcs :
    /\ p # q
    /\ rsv[p].pc = "ok" /\ rsv[q].pc = "failed"
    /\ \E v \in Variants :
         /\ Need(rsv[p].items)[v] > 0 /\ Need(rsv[q].items)[v] > 0
         /\ succeededQty[v] + Need(rsv[q].items)[v] > InitStock[v]

C3_StockNonNegative == \A v \in Variants : stockQuantity[v] >= 0

\* C4: idempotent capture. A handlePayPalCallback call for an order whose payment
\* already is PAID or FAILED does not invoke PayPalService.captureOrder: the
\* gateway answers no callback for such an order.
C4_IdempotentCapture ==
  [][\A c \in CapProcs :
       (cap[c].pc = "idle" /\ cap'[c].pc = "payment")
         => \A k \in DOMAIN payments[cap'[c].orderId] :
              payments[cap'[c].orderId][k].status \notin {"PAID", "FAILED"}]_vars

\* C5: terminal-state lock-in. Once an order is COMPLETED or CANCELLED no
\* operation changes any of its fields.
C5_TerminalLockIn ==
  [][\A o \in Orders :
       orders[o].status \in {"COMPLETED", "CANCELLED"} => orders'[o] = orders[o]]_vars

\* C6: only legal transitions. The status of a PENDING order changes only to
\* PROCESSING or CANCELLED, the status of a PROCESSING order only to COMPLETED
\* or CANCELLED.
C6_LegalTransitions ==
  [][\A o \in Orders :
       /\ orders[o].status = "PENDING"
            => orders'[o].status \in {"PENDING", "PROCESSING", "CANCELLED"}
       /\ orders[o].status = "PROCESSING"
            => orders'[o].status \in {"PROCESSING", "COMPLETED", "CANCELLED"}]_vars

\* C7: release/commit exclusivity. No order ever has its stock both committed
\* (decremented on payment success) and restored.
C7_CommitReleaseExclusive == \A o \in Orders : ~(committed[o] /\ restored[o])

\* C8: sweeper against capture. An order that handleAbandonedOrders and a capture
\* callback worked on at the same time never ends CANCELLED by the sweep while
\* its payment is PAID and its stock decremented.
C8_SweepCaptureRace ==
  \A o \in Orders :
    raced[o] => ~(/\ orders[o].status = "CANCELLED"
                  /\ orders[o].note = "sweep"
                  /\ HasPaid(o)
                  /\ committed[o])

\* C9: capture COMPLETED. When a callback whose gateway capture returned COMPLETED
\* ends, for an order that has a payment, the payment is PAID with the capture id
\* and paidAt recorded and the order is PROCESSING with paidAt set.
C9_CaptureCompleted ==
  [][\A c \in CapProcs :
       (/\ cap[c].pc # "idle" /\ cap'[c].pc = "idle"
        /\ cap[c].status = "COMPLETED"
        /\ payments[cap[c].orderId] # <<>>)
         => LET o == cap[c].orderId
            IN /\ \E k \in DOMAIN payments'[o] :
                    /\ payments'[o][k].status = "PAID"
                    /\ payments'[o][k].transactionId = CaptureId(cap[c].ppId)
                    /\ payments'[o][k].paidAt # Null
               /\ orders'[o].status = "PROCESSING"
               /\ orders'[o].paidAt # Null]_vars

\* C10: capture not COMPLETED. When a callback whose gateway capture returned
\* DECLINED ends, for an order that has a payment, the payment is FAILED, the
\* order is CANCELLED and the stock is what it was before the callback.
C10_CaptureDeclined ==
  [][\A c \in CapProcs :
       (/\ cap[c].pc # "idle" /\ cap'[c].pc = "idle"
        /\ cap[c].status = "DECLINED"
        /\ payments[cap[c].orderId] # <<>>)
         => LET o == cap[c].orderId
            IN /\ \E k \in DOMAIN payments'[o] : payments'[o][k].status = "FAILED"
               /\ orders'[o].status = "CANCELLED"
               /\ stockQuantity' = stockQuantity]_vars

\* C11: gateway failure. When PayPalService.captureOrder throws, the callback
\* ends with an error and has changed no Payment row, no Order row and no stock
\* counter.
C11_GatewayThrowLeavesState ==
  [][(/\ captureCalls' > captureCalls
      /\ \A c \in CapProcs : cap'[c].pc = "idle" \/ cap[c].pc # "idle")
       => /\ payments' = payments
          /\ orders' = orders
          /\ stockQuantity' = stockQuantity
          /\ reservedQuantity' = reservedQuantity
          /\ \E c \in CapProcs : cap'[c].out = "BadRequest" /\ cap'[c].cause = "gateway"]_vars

\* C11 witness: a callback has ended on a gateway failure and the order's
\* payment is still PENDING with its gateway order id, open to a retry.
C11_Witness ==
  \E c \in CapProcs, o \in Orders :
    /\ cap[c].pc = "idle" /\ cap[c].cause = "gateway"
    /\ captureCalls > 0
    /\ \E k \in DOMAIN payments[o] :
         /\ payments[o][k].status = "PENDING"
         /\ payments[o][k].transactionId \in gwOrders
    /\ orders[o].status = "PENDING" /\ ~orders[o].isPaid

\* C12: late success callback. No step of a callback whose capture returned
\* COMPLETED changes the row of an order that is CANCELLED (paid flag, paidAt,
\* status) or any stock counter.
C12_LateCaptureRejected ==
  [][\A c \in CapProcs :
       (/\ cap[c].pc # "idle" /\ cap'[c] # cap[c]
        /\ cap[c].status = "COMPLETED"
        /\ orders[cap[c].orderId].status = "CANCELLED")
         => /\ orders'[cap[c].orderId] = orders[cap[c].orderId]
            /\ stockQuantity' = stockQuantity
            /\ reservedQuantity' = reservedQuantity]_vars

\* C13: one open payment. In every reachable state every order has at most one
\* Payment whose status is PENDING or UNPAID, whatever PaymentsService.create
\* and PaymentsService.retryPayment calls were made.
C13_OneOpenPayment ==
  \A o \in Orders :
    Cardinality({k \in DOMAIN payments[o] :
                   payments[o][k].status \in {"PENDING", "UNPAID"}}) <= 1

RECURSIVE HeldSum(_, _)
HeldSum(S, v) ==
  IF S = {} THEN 0
  ELSE LET o == CHOOSE x \in S : TRUE
       IN Need(orders[o].items)[v] + HeldSum(S \ {o}, v)

\* C14: reserved matches the open orders. For every variant the reserved
\* counter equals the quantities on the line items of the orders that are
\* PENDING or PROCESSING, so an order holds its items' quantities while it is
\* open and nothing once it is COMPLETED or CANCELLED.
C14_ReservedMatchesOpenOrders ==
  \A v \in Variants :
    reservedQuantity[v] =
      HeldSum({o \in Orders : orders[o].status \in {"PENDING", "PROCESSING"}}, v)

\* C15: commit is idempotent. In every reachable state and for every order, a
\* second confirmStockReduction call leaves the reserved counters as the first
\* call left them (the call never touches stock_quantity).
C15_CommitIdempotent ==
  \A o \in Orders :
    Exists(o) =>
      ReservedAfter(ReservedAfter(reservedQuantity, orders[o].items), orders[o].items)
        = ReservedAfter(reservedQuantity, orders[o].items)

\* C16: release acts only on an outstanding reservation. For an order whose
\* stock was already released or committed, or when no reservation is
\* outstanding at all, a releaseReservedStock call leaves stock_quantity and
\* reserved_quantity of every variant unchanged.
C16_ReleaseOnlyOutstanding ==
  \A o \in Orders :
    (/\ Exists(o) /\ orders[o].items # <<>>
     /\ (restored[o] \/ committed[o] \/ reservedQuantity = Zero))
      => /\ ReleasedStock(stockQuantity, orders[o].items) = stockQuantity
         /\ ReservedAfter(reservedQuantity, orders[o].items) = reservedQuantity

\* C17: handleAbandonedOrders. Every order the sweeper cancels is, at the moment its
\* row is written, PENDING with no PAID payment and createdAt strictly older than the
\* threshold; the write sets CANCELLED, canceledAt and the audit note; every other
\* order and every stock counter is left untouched.
C17_SweepCancelsOnlyAbandoned ==
  [][(sweep.pc = "saving" /\ sweep' # sweep) =>
       LET o == Head(sweep.queue)
       IN /\ orders[o].status = "PENDING"
          /\ ~HasPaid(o)
          /\ \E t \in Thresholds : orders[o].createdAt < now - t
          /\ orders'[o].status = "CANCELLED"
          /\ orders'[o].canceledAt = At(now)
          /\ orders'[o].note = "sweep"
          /\ \A x \in Orders \ {o} : orders'[x] = orders[x]
          /\ stockQuantity' = stockQuantity
          /\ reservedQuantity' = reservedQuantity]_vars

\* C18: liveness of the sweeper. While the sweeper keeps being run and time advances,
\* an order that is PENDING without a PAID payment is eventually CANCELLED with no
\* stock taken for it, unless it gets a PAID payment in the meantime.
C18_AbandonedEventuallyCancelled ==
  \A o \in Orders :
    (Exists(o) /\ orders[o].status = "PENDING" /\ ~HasPaid(o))
      ~> (\/ HasPaid(o)
          \/ orders[o].status = "CANCELLED" /\ ~committed[o])

C20_CreatePersistsOrderItemsPayment ==
  [][(crt' # crt /\ crt'.out = "ok") =>
       LET o == crt'.id
       IN /\ orders'[o].status = "PENDING"
          /\ orders'[o].items = crt'.items
          /\ Len(payments'[o]) = 1
          /\ payments'[o][1].status = IF crt'.method = "COD" THEN "UNPAID" ELSE "PENDING"]_vars

\* C21: cancellation releases. A successful cancelOrder, cancelOrderForUser or
\* cancelOrderForAdmin of an order whose items are reserved and not committed gives
\* the reservation back: the items' quantities leave reserved and return to stock.
C21_CancelReleasesReservation ==
  [][\A o \in Orders :
       (/\ crt' # crt
        /\ crt'.cause = "cancel" /\ crt'.out = "ok" /\ crt'.id = o
        /\ orders[o].items # <<>>
        /\ ~committed[o]
        /\ \A v \in Variants : reservedQuantity[v] >= Need(orders[o].items)[v])
         => \A v \in Variants :
              /\ reservedQuantity'[v] = reservedQuantity[v] - Need(orders[o].items)[v]
              /\ stockQuantity'[v] = stockQuantity[v] + Need(orders[o].items)[v]]_vars

\* C22: cancellation of a finished order. cancelOrder, cancelOrderForUser and
\* cancelOrderForAdmin on an order that is COMPLETED or CANCELLED end with BadRequest
\* and leave the order row (status, note, timestamps) and the stock counters as
\* they were.
C22_TerminalCancelRejected ==
  [][\A o \in Orders :
       (/\ crt' # crt
        /\ crt'.cause = "cancel" /\ crt'.id = o
        /\ orders[o].status \in {"COMPLETED", "CANCELLED"})
         => /\ crt'.out = "BadRequest"
            /\ orders'[o] = orders[o]
            /\ stockQuantity' = stockQuantity
            /\ reservedQuantity' = reservedQuantity]_vars

\* A cancellation refused on a COMPLETED order while stock is reserved.
C22_Witness ==
  /\ crt.cause = "cancel"
  /\ crt.out = "BadRequest"
  /\ crt.id \in Orders
  /\ orders[crt.id].status = "COMPLETED"
  /\ orders[crt.id].completedAt # Null
  /\ reservedQuantity # Zero

\* C23: terminal payments. Once a Payment is FAILED, CANCELLED or REFUNDED no
\* operation changes its status again.
C23_PaymentTerminalLockIn ==
  [][\A o \in Orders : \A k \in DOMAIN payments[o] :
       payments[o][k].status \in {"FAILED", "CANCELLED", "REFUNDED"}
         => /\ k \in DOMAIN payments'[o]
            /\ payments'[o][k].status = payments[o][k].status]_vars

\* C24: voucher usage. The voucher's usage counter equals the number of orders that
\* were created with the voucher applied: one increment per such order, none for a
\* creation that failed.
C24_VoucherUsedOncePerOrder ==
  usedCount = Cardinality({o \in Orders : Exists(o) /\ orders[o].voucher})

\* C25: order total. Every persisted order satisfies
\* totalPrice = subTotal + shippingFee - discount.
C25_TotalAddsUp ==
  \A o \in Orders :
    Exists(o) =>
      orders[o].amounts.totalPrice =
        orders[o].amounts.subTotal + orders[o].amounts.shippingFee - orders[o].amounts.discount

\* C26: order numbers are unique. No two persisted orders carry the same
\* orderNumber, whether created one after the other, concurrently, or after an
\* order was removed.
C26_OrderNumbersUnique ==
  \A o1, o2 \in Orders :
    (Exists(o1) /\ Exists(o2) /\ o1 # o2) => orders[o1].orderNumber # orders[o2].orderNumber

\* C27: no hard delete after a payment attempt. An order that has a Payment row is
\* never removed: in every step its row remains.
C27_NoDeleteWithPayment ==
  [][\A o \in Orders :
       (Exists(o) /\ payments[o] # <<>>) => orders'[o].status # "NONE"]_vars

\* C28: line items are immutable. Once an order is persisted no step changes the
\* variant or quantity of one of its line items or removes one.
C28_LineItemsImmutable ==
  [][\A o \in Orders : Exists(o) => orders'[o].items = orders[o].items]_vars

C31_StockConserved ==
  \A v \in Variants :
    stockQuantity[v] + HeldSum({o \in Orders : committed[o] /\ ~restored[o]}, v)
      = InitStock[v]

\* C32: however many capture callbacks the gateway answers COMPLETED, every
\* variant's stock is taken at most once for an order: what is missing from the
\* initial stock is at most the quantities of the orders stock was taken for.
C32_StockTakenOncePerOrder ==
  \A v \in Variants :
    InitStock[v] - stockQuantity[v] <= HeldSum({o \in Orders : committed[o]}, v)

\* C33: capture is all-or-nothing. When no callback is in flight, an order has a
\* PAID payment exactly if the order is marked paid and its stock was taken.
C33_CaptureAllOrNothing ==
  (\A c \in CapProcs : cap[c].pc = "idle") =>
    \A o \in Orders :
      HasPaid(o) <=> (orders[o].isPaid /\ committed[o])

\* C34: a callback marks a payment PAID only when the gateway order it captured
\* is the one stored on that payment as transaction id, and never a payment that
\* is CANCELLED.
C34_CaptureMatchesPayment ==
  [][\A o \in Orders : \A k \in DOMAIN payments[o] :
       (/\ k \in DOMAIN payments'[o]
        /\ payments[o][k].status # "PAID"
        /\ payments'[o][k].status = "PAID")
         => /\ payments[o][k].status # "CANCELLED"
            /\ \E c \in CapProcs :
                 /\ cap[c].pc = "payment" /\ cap[c].orderId = o
                 /\ cap[c].ppId = payments[o][k].transactionId]_vars

\* C35: no double restoration. A cancellation of an order whose stock was given
\* back before does not give it back again.
C35_RestoredOnce ==
  [][\A o \in Orders :
       (/\ restored[o]
        /\ orders[o].status # "CANCELLED"
        /\ orders'[o].status = "CANCELLED")
         => stockQuantity' = stockQuantity]_vars

\* C36: a customer's cancellation of an order whose payment is PAID gives the
\* order's quantities back to the stock, for a PENDING and for a PROCESSING order.
C36_PaidCancelRestoresStock ==
  [][\A o \in Orders :
       (/\ crt' # crt
        /\ crt'.cause = "cancel" /\ crt'.method = "cancelOrderForUser"
        /\ crt'.out = "ok" /\ crt'.id = o
        /\ HasPaid(o))
         => \A v \in Variants :
              stockQuantity'[v] = stockQuantity[v] + Need(orders[o].items)[v]]_vars

\* C37: handleAbandonedPayments changes only payments that are PENDING or UNPAID:
\* no save of its loop changes a payment that is PAID, FAILED or REFUNDED at that
\* moment, so a payment a callback marked PAID is not turned CANCELLED by it.
C37_SweepChangesOnlyOpenPayments ==
  [][(psweep.pc = "saving" /\ psweep' # psweep) =>
       \A o \in Orders : \A k \in DOMAIN payments[o] :
         payments'[o][k] # payments[o][k]
           => payments[o][k].status \in {"PENDING", "UNPAID"}]_vars

\* C38: PaymentsService.create for an order that is paid ends with a Conflict
\* error and changes nothing: no Payment row is added or changed, no gateway
\* order is opened, the order is as it was.
C38_PaidOrderCreateRejected ==
  [][\A o \in Orders :
       (/\ crt' # crt
        /\ crt'.cause = "payment" /\ crt'.id = o
        /\ orders[o].isPaid)
         => /\ crt'.out = "Conflict"
            /\ payments' = payments
            /\ gwOrders' = gwOrders
            /\ captureCalls' = captureCalls
            /\ orders' = orders]_vars

\* A payment refused for an order that a callback has marked paid.
C38_Witness ==
  /\ crt.cause = "payment" /\ crt.out = "Conflict"
  /\ crt.id \in Orders
  /\ orders[crt.id].isPaid
  /\ HasPaid(crt.id)
  /\ Len(payments[crt.id]) = 1

\* C39: when the gateway order creation, or obtaining the approval link, fails in
\* createOrderWithPayPal after the internal order was created, the call throws and
\* the order it created is CANCELLED: no such order stays PENDING.
C39_FailedPayPalOrderCancelled ==
  [][\A o \in Orders :
       (/\ crt' # crt
        /\ crt'.cause = "paypal"
        /\ crt'.out = "Error"
        /\ crt'.id = o)
       => /\ ~Exists(o)
          /\ orders'[o].status = "CANCELLED"]_vars
====
